---- MODULE Spec2Model ----
(***************************************************************************)
(* A model of the nelius-launcher download pipeline                       *)
(* (src/utility/download_mc.py) and of the classpath the launcher builds  *)
(* from its descriptor (src/prototyping/nelius_launch.py).                *)
(*                                                                         *)
(* Strings that the code takes apart or puts together are sequences:      *)
(* a path is the sequence of its components, a hash the sequence of its   *)
(* characters, so that os.path.join, os.path.relpath and h[0:2] are       *)
(* computed and not assumed.                                              *)
(***************************************************************************)
EXTENDS Integers, Sequences, FiniteSets, TLC

VARIABLES
    mc_version,           \* args.mc_version, the requested version id
    host,                 \* platform.system() of the executing host
    run,                  \* which invocation of the program this is (1..MaxRuns)
    pc,                   \* position of the main thread
    version_data,         \* the VersionData get_version_data returned
    li,                   \* position of the loop over version_data.libraries
    classpath,            \* the local list classpath of download_minecraft_structure
    asset_index_objects,  \* the hashes of the parsed asset index, in document order
    oi,                   \* position of the loop over asset_index_objects
    tasks,                \* what was submitted to the executor, in submission order
    fs,                   \* the files on disk: path -> "partial" | "full"
    dirs,                 \* the directories on disk
    meta,                 \* the content of nelius.meta on disk
    requests,             \* the URLs requested over the network in this run
    exc,                  \* the exception pending in the main thread
    result,               \* how the run ended
    fs0,                  \* fs as it was when this run started
    meta0,                \* meta as it was when this run started
    metaWrites,           \* how many times this run wrote nelius.meta
    raw_library,          \* extraction alone: the library entry read
    library               \* extraction alone: what the loop body made of it

vars == <<mc_version, host, run, pc, version_data, li, classpath,
          asset_index_objects, oi, tasks, fs, dirs, meta, requests, exc,
          result, fs0, meta0, metaWrites, raw_library, library>>

-----------------------------------------------------------------------------
(* Bounds of the model.                                                    *)

\* The program may be run again on the same directory this many times.
MaxRuns == 2

\* The size of the pool. The program sets 64 (download_mc.py:16); the model
\* takes a pool smaller than the number of tasks so that tasks do queue.
CONCURRENT_DOWNLOAD_WORKERS == 2

\* The longest rule list of a library entry the extraction is checked on.
MaxRules == 3

-----------------------------------------------------------------------------
(* Program constants and path arithmetic.                                  *)

MANIFEST_URL == <<"piston-meta", "version_manifest_v2.json">>
RESOURCES_BASE_URL == <<"resources.download.minecraft.net">>

\* args.output
output_dir == <<"out">>

None == "None"

\* os.path.join(a, b) for a relative b
Join(a, b) == a \o b

\* os.path.relpath(p, base) for a p below base
RelPath(p, base) ==
    IF Len(p) >= Len(base) /\ SubSeq(p, 1, Len(base)) = base
    THEN SubSeq(p, Len(base) + 1, Len(p))
    ELSE p

\* os.path.dirname(p)
DirName(p) == SubSeq(p, 1, Len(p) - 1)

\* s[0:n] of Python: the first n items, fewer when s is shorter
Slice(s, n) == SubSeq(s, 1, IF Len(s) < n THEN Len(s) ELSE n)

\* os.makedirs(d, exist_ok=True): d and every directory above it
MakeDirs(ds, d) == ds \cup {SubSeq(d, 1, k) : k \in 1..Len(d)}

\* dict.get(k, default)
Get(d, k, default) == IF k \in DOMAIN d THEN d[k] ELSE default

libraries_directory == Join(output_dir, <<"libraries">>)
assets_directory == Join(output_dir, <<"assets">>)
objects_directory == Join(assets_directory, <<"objects">>)
indexes_directory == Join(assets_directory, <<"indexes">>)
client_jar_path == Join(output_dir, <<"client.jar">>)
meta_path == Join(output_dir, <<"nelius.meta">>)

-----------------------------------------------------------------------------
(* What the remote services hold. A version list, one detail document per *)
(* version and one asset index per detail document, fixed for a behaviour. *)

AnyRule == [action |-> "allow"]
OsRule(name) == [action |-> "allow", os |-> [name |-> name]]
ArchRule == [action |-> "allow", os |-> [arch |-> "x86"]]

Artifact(file) ==
    [artifact |-> [path |-> <<"com", file>>, url |-> <<"libraries.minecraft.net", file>>]]

\* The ids of the versions whose detail document lacks one required key.
MalformedVersions ==
    << "no-id", "no-assetIndex", "no-assetIndex-id", "no-assetIndex-url",
       "no-client", "no-client-url", "no-library-name", "no-library-path",
       "no-library-url" >>

ManifestDocument ==
    [latest |-> [release |-> "1.21", snapshot |-> "1.18-Pre"],
     versions |-> << [id |-> "1.21", type |-> "release", url |-> <<"detail", "1.21">>],
                     [id |-> "1.20", type |-> "release", url |-> <<"detail", "1.20">>],
                     [id |-> "1.19", type |-> "release", url |-> <<"detail", "1.19">>],
                     [id |-> "1.18-Pre", type |-> "snapshot", url |-> <<"detail", "1.18-Pre">>] >>
                  \o [k \in 1..Len(MalformedVersions) |->
                        [id |-> MalformedVersions[k], type |-> "snapshot",
                         url |-> <<"detail", MalformedVersions[k]>>]]]

\* The dictionary d without its key k.
Without(d, k) == [x \in DOMAIN d \ {k} |-> d[x]]

\* 1.20: a linux-only library and an unconstrained one, two assets.
Detail_1_20 ==
    [id |-> "1.20", mainClass |-> "net.minecraft.client.main.Main",
     assetIndex |-> [id |-> "abc", url |-> <<"index", "abc">>],
     downloads |-> [client |-> [url |-> <<"client", "1.20">>],
                    server |-> [url |-> <<"server", "1.20">>]],
     libraries |-> << [name |-> "a", rules |-> <<OsRule("linux")>>, downloads |-> Artifact("a.jar")],
                      [name |-> "b", downloads |-> Artifact("b.jar")] >>]

\* 1.21: two rules with an OS name, a rule without "os", a library without
\* an artifact, and two asset names with one hash.
Detail_1_21 ==
    [id |-> "1.21", mainClass |-> "net.minecraft.client.main.Main",
     assetIndex |-> [id |-> "dup", url |-> <<"index", "dup">>],
     downloads |-> [client |-> [url |-> <<"client", "1.21">>],
                    server |-> [url |-> <<"server", "1.21">>]],
     libraries |-> << [name |-> "w", rules |-> <<OsRule("linux"), OsRule("windows")>>,
                       downloads |-> Artifact("w.jar")],
                      [name |-> "n", rules |-> <<AnyRule>>,
                       downloads |-> [classifiers |-> "natives"]],
                      [name |-> "m", rules |-> <<AnyRule, OsRule("osx")>>,
                       downloads |-> Artifact("m.jar")] >>]

\* 1.19: an "os" without a name after one with a name, two libraries with
\* one relative path, no assets.
Detail_1_19 ==
    [id |-> "1.19", mainClass |-> "net.minecraft.client.main.Main",
     assetIndex |-> [id |-> "none", url |-> <<"index", "none">>],
     downloads |-> [client |-> [url |-> <<"client", "1.19">>],
                    server |-> [url |-> <<"server", "1.19">>]],
     libraries |-> << [name |-> "s", rules |-> <<OsRule("linux"), ArchRule>>,
                       downloads |-> Artifact("s.jar")],
                      [name |-> "s2", downloads |-> Artifact("s.jar")] >>]

\* 1.18-Pre: no mainClass.
Detail_1_18 ==
    [id |-> "1.18-Pre",
     assetIndex |-> [id |-> "abc", url |-> <<"index", "abc">>],
     downloads |-> [client |-> [url |-> <<"client", "1.18">>],
                    server |-> [url |-> <<"server", "1.18">>]],
     libraries |-> << >>]

\* Detail_1_20 with one key taken out.
Malformed(version) ==
    LET d == Detail_1_20
        lib == d.libraries[1]
        WithArtifact(a) ==
            [d EXCEPT !.libraries = <<[lib EXCEPT !.downloads = [artifact |-> a]], d.libraries[2]>>]
    IN CASE version = "no-id" -> Without(d, "id")
         [] version = "no-assetIndex" -> Without(d, "assetIndex")
         [] version = "no-assetIndex-id" -> [d EXCEPT !.assetIndex = Without(d.assetIndex, "id")]
         [] version = "no-assetIndex-url" -> [d EXCEPT !.assetIndex = Without(d.assetIndex, "url")]
         [] version = "no-client" -> [d EXCEPT !.downloads = Without(d.downloads, "client")]
         [] version = "no-client-url" -> [d EXCEPT !.downloads = [client |-> << >>, server |-> d.downloads.server]]
         [] version = "no-library-name" ->
                [d EXCEPT !.libraries = <<Without(lib, "name"), d.libraries[2]>>]
         [] version = "no-library-path" ->
                WithArtifact(Without(lib.downloads.artifact, "path"))
         [] version = "no-library-url" ->
                WithArtifact(Without(lib.downloads.artifact, "url"))

DetailDocument(url) ==
    CASE url = <<"detail", "1.21">> -> Detail_1_21
      [] url = <<"detail", "1.20">> -> Detail_1_20
      [] url = <<"detail", "1.19">> -> Detail_1_19
      [] url = <<"detail", "1.18-Pre">> -> Detail_1_18
      [] OTHER -> Malformed(url[2])

Hash1 == <<"a", "b", "c", "1">>
Hash2 == <<"a", "b", "d", "2">>
Hash3 == <<"f", "0", "9">>

\* The "objects" of the asset index at url, in document order.
AssetIndexDocument(url) ==
    CASE url = <<"index", "abc">> ->
            << [name |-> "icon.png", hash |-> Hash1], [name |-> "lang.json", hash |-> Hash3] >>
      [] url = <<"index", "dup">> ->
            << [name |-> "x.ogg", hash |-> Hash2], [name |-> "y.ogg", hash |-> Hash2] >>
      [] OTHER -> << >>

RequestedVersions ==
    {"1.21", "1.20", "1.19", "1.18-Pre", "1.18-pre"}
    \cup {MalformedVersions[k] : k \in 1..Len(MalformedVersions)}
Hosts == {"Windows", "Linux", "Darwin", "FreeBSD"}

-----------------------------------------------------------------------------
(* get_version_data                                                        *)

\* A loop that falls back to the first entry instead of raising.
RECURSIVE FindVersion_Fallback(_, _, _)
FindVersion_Fallback(versions, target_version_id, i) ==
    IF i > Len(versions) THEN 1
    ELSE IF versions[i].id = target_version_id THEN i
    ELSE FindVersion_Fallback(versions, target_version_id, i + 1)

\* for version in manifest.versions: if version.id == target_version_id
RECURSIVE FindVersion(_, _, _)
FindVersion(versions, target_version_id, i) ==
    IF i > Len(versions) THEN 0
    ELSE IF versions[i].id = target_version_id THEN i
    ELSE FindVersion(versions, target_version_id, i + 1)

\* The body of "for rule in rules".
RuleStep(system, rule) ==
    IF "os" \in DOMAIN rule
    THEN Get(rule.os, "name", "unspecified")
    ELSE system

RECURSIVE ScanRules(_, _, _)
ScanRules(rules, i, system) ==
    IF i > Len(rules) THEN system
    ELSE ScanRules(rules, i + 1, RuleStep(system, rules[i]))

HasArtifact(raw) ==
    "artifact" \in DOMAIN Get(raw, "downloads", << >>)

\* The lookups of the loop body that raise KeyError.
LibraryKeyError(raw) ==
    HasArtifact(raw) /\ ~ ( /\ "name" \in DOMAIN raw
                            /\ "path" \in DOMAIN raw.downloads.artifact
                            /\ "url" \in DOMAIN raw.downloads.artifact )

\* The body of "for raw_library in ...": the libraries list afterwards.
ParseLibrary(libraries, raw) ==
    IF HasArtifact(raw)
    THEN Append(libraries,
                [library_name |-> raw.name,
                 operating_system |-> ScanRules(Get(raw, "rules", << >>), 1, "unspecified"),
                 download_path |-> raw.downloads.artifact.path,
                 download_url |-> raw.downloads.artifact.url])
    ELSE libraries

RECURSIVE ParseLibraries(_, _, _)
ParseLibraries(raws, i, libraries) ==
    IF i > Len(raws) THEN libraries
    ELSE ParseLibraries(raws, i + 1, ParseLibrary(libraries, raws[i]))

HasPath(d, keys) ==
    \A n \in 1..Len(keys) :
        LET RECURSIVE At(_, _)
            At(x, k) == IF k = 0 THEN x ELSE At(x, k - 1)[keys[k]]
        IN keys[n] \in DOMAIN At(d, n - 1)

\* Whether building VersionData from the detail document raises KeyError.
DetailKeyError(doc) ==
    \/ \E i \in 1..Len(Get(doc, "libraries", << >>)) : LibraryKeyError(doc.libraries[i])
    \/ ~ HasPath(doc, <<"id">>)
    \/ ~ HasPath(doc, <<"assetIndex", "url">>)
    \/ ~ HasPath(doc, <<"assetIndex", "id">>)
    \/ ~ HasPath(doc, <<"downloads", "client", "url">>)
    \/ ~ HasPath(doc, <<"downloads", "server", "url">>)
    \/ ~ HasPath(doc, <<"mainClass">>)

NoVersionData ==
    [id |-> "", asset_index_url |-> << >>, asset_index_id |-> "",
     client_jar_url |-> << >>, server_jar_url |-> << >>,
     libraries |-> << >>, main_class |-> ""]

VersionDataOf(doc) ==
    [id |-> doc.id,
     asset_index_url |-> doc.assetIndex.url,
     asset_index_id |-> doc.assetIndex.id,
     client_jar_url |-> doc.downloads.client.url,
     server_jar_url |-> doc.downloads.server.url,
     libraries |-> ParseLibraries(Get(doc, "libraries", << >>), 1, << >>),
     main_class |-> doc.mainClass]

-----------------------------------------------------------------------------
(* download_file and the executor                                          *)

Outcomes == {"Skipped", "Downloaded", "Failed"}

\* A check that takes an incomplete file for a missing one.
Exists_Complete(f, p) == p \in DOMAIN f /\ f[p] = "full"

\* No check at all.
Exists_Never(f, p) == FALSE

\* os.path.exists(dest_path)
Exists(f, p) == p \in DOMAIN f

\* open(dest_path, "wb"): the file is created, or truncated, and is incomplete
OpenForWrite(f, p) == [q \in DOMAIN f \cup {p} |-> IF q = p THEN "partial" ELSE f[q]]

\* the last chunk is written and the file closed
CloseFile(f, p) == [f EXCEPT ![p] = "full"]

Running(ts) == {i \in 1..Len(ts) : ts[i].st \in {"get", "stream"}}
Queued(ts) == {i \in 1..Len(ts) : ts[i].st = "queued"}

\* executor.submit(download_file, url, dest_path)
Submit(ts, url, dest_path) == Append(ts, [url |-> url, path |-> dest_path, st |-> "queued"])

\* A pool that starts a thread for every task.
WorkerIdle_Unbounded(ts) == TRUE

\* A worker may take a task: one of the max_workers threads is idle.
WorkerIdle(ts) == Cardinality(Running(ts)) < CONCURRENT_DOWNLOAD_WORKERS

\* shutdown(cancel_futures=True): only the running tasks are waited for.
PoolDrained_CancelQueued(ts) == \A i \in 1..Len(ts) : ts[i].st \notin {"get", "stream"}

\* shutdown(wait=False): the with block is left at once.
PoolDrained_NoWait(ts) == TRUE

\* ThreadPoolExecutor.__exit__ is shutdown(wait=True): it returns when every
\* submitted task has run.
PoolDrained(ts) == \A i \in 1..Len(ts) : ts[i].st \in Outcomes

\* Workers that take nothing more from the queue once shutdown was called.
PoolRunning_UntilShutdown == pc \notin {"start", "done", "killed", "exit"}

\* The executor exists and its threads take work: from its creation to the
\* end of the process, the wait of shutdown included.
PoolRunning == pc \notin {"start", "done", "killed"}

\* A worker takes the oldest queued task and enters download_file: the
\* existence check, and past it makedirs and the request.
TaskStart ==
    /\ PoolRunning
    /\ WorkerIdle(tasks)
    /\ Queued(tasks) # {}
    /\ LET i == CHOOSE k \in Queued(tasks) : \A j \in Queued(tasks) : k <= j
           t == tasks[i]
       IN IF Exists(fs, t.path)
          THEN /\ tasks' = [tasks EXCEPT ![i].st = "Skipped"]
               /\ UNCHANGED <<dirs, requests>>
          ELSE /\ tasks' = [tasks EXCEPT ![i].st = "get"]
               /\ dirs' = MakeDirs(dirs, DirName(t.path))
               /\ requests' = requests \cup {t.url}
    /\ UNCHANGED <<mc_version, host, run, pc, version_data, li, classpath,
                   asset_index_objects, oi, fs, meta, exc, result, fs0, meta0,
                   metaWrites, raw_library, library>>

\* session.get raises, or raise_for_status does: nothing was opened.
TaskGetFails(i) ==
    /\ pc \notin {"done", "killed"}
    /\ tasks[i].st = "get"
    /\ tasks' = [tasks EXCEPT ![i].st = "Failed"]
    /\ UNCHANGED <<mc_version, host, run, pc, version_data, li, classpath,
                   asset_index_objects, oi, fs, dirs, meta, requests, exc,
                   result, fs0, meta0, metaWrites, raw_library, library>>

\* The response is a success: open(dest_path, "wb").
TaskGetOk(i) ==
    /\ pc \notin {"done", "killed"}
    /\ tasks[i].st = "get"
    /\ tasks' = [tasks EXCEPT ![i].st = "stream"]
    /\ fs' = OpenForWrite(fs, tasks[i].path)
    /\ UNCHANGED <<mc_version, host, run, pc, version_data, li, classpath,
                   asset_index_objects, oi, dirs, meta, requests, exc,
                   result, fs0, meta0, metaWrites, raw_library, library>>

\* iter_content raises while the body streams: the with blocks close the
\* file and the response, and nothing removes the file.
TaskStreamFails(i) ==
    /\ pc \notin {"done", "killed"}
    /\ tasks[i].st = "stream"
    /\ tasks' = [tasks EXCEPT ![i].st = "Failed"]
    /\ UNCHANGED <<mc_version, host, run, pc, version_data, li, classpath,
                   asset_index_objects, oi, fs, dirs, meta, requests, exc,
                   result, fs0, meta0, metaWrites, raw_library, library>>

\* The body is written to its end.
TaskStreamDone(i) ==
    /\ pc \notin {"done", "killed"}
    /\ tasks[i].st = "stream"
    /\ tasks' = [tasks EXCEPT ![i].st = "Downloaded"]
    /\ fs' = CloseFile(fs, tasks[i].path)
    /\ UNCHANGED <<mc_version, host, run, pc, version_data, li, classpath,
                   asset_index_objects, oi, dirs, meta, requests, exc,
                   result, fs0, meta0, metaWrites, raw_library, library>>

-----------------------------------------------------------------------------
(* The main thread: __main__ and download_minecraft_structure              *)

\* The loop without its test for osx.
Excluded_NoOsx(lib, h) ==
    \/ lib.operating_system = "windows" /\ h # "Windows"
    \/ lib.operating_system = "linux" /\ h # "Linux"

\* The three "continue" tests of the loop over version_data.libraries.
Excluded(lib, h) ==
    \/ lib.operating_system = "windows" /\ h # "Windows"
    \/ lib.operating_system = "linux" /\ h # "Linux"
    \/ lib.operating_system = "osx" /\ h # "Darwin"

LibraryPath(lib) == Join(libraries_directory, lib.download_path)

asset_index_path == Join(indexes_directory, << <<version_data.asset_index_id, ".json">> >>)

\* A layout without the two-character shard.
ObjectPath_Flat(h) == Join(objects_directory, <<h>>)

ObjectUrl(h) == Join(RESOURCES_BASE_URL, <<Slice(h, 2), h>>)
ObjectPath(h) == Join(objects_directory, <<Slice(h, 2), h>>)

\* A descriptor whose classpath lists the libraries already on disk when it
\* is written.
Descriptor_OfCompleted ==
    [version |-> mc_version,
     asset_index_id |-> version_data.asset_index_id,
     classpath_relative |->
         SelectSeq(classpath, LAMBDA p : Join(output_dir, p) \in DOMAIN fs),
     main_class |-> version_data.main_class,
     assets_dir |-> RelPath(assets_directory, output_dir)]

\* The dictionary json.dump writes to nelius.meta.
Descriptor ==
    [version |-> mc_version,
     asset_index_id |-> version_data.asset_index_id,
     classpath_relative |-> classpath,
     main_class |-> version_data.main_class,
     assets_dir |-> RelPath(assets_directory, output_dir)]

\* A with block that swallows the exception.
RunResult_Swallowed(e) == "success"

\* What leaving the "with ThreadPoolExecutor" block ends the run with.
RunResult(e) == IF e = None THEN "success" ELSE e

\* A request of get_version_data raises.
GetVersionDataFails ==
    /\ pc = "start"
    /\ requests' = requests \cup {MANIFEST_URL}
    /\ pc' = "done"
    /\ result' = "ConnectionError"
    /\ UNCHANGED <<mc_version, host, run, version_data, li, classpath,
                   asset_index_objects, oi, tasks, fs, dirs, meta, exc, fs0,
                   meta0, metaWrites, raw_library, library>>

\* A get_version_data that recovers from a missing key with an empty
\* VersionData instead of raising.
GetVersionData_Recovering ==
    /\ pc = "start"
    /\ LET versions == ManifestDocument.versions
           found == FindVersion(versions, mc_version, 1)
       IN IF found = 0
          THEN /\ requests' = requests \cup {MANIFEST_URL}
               /\ pc' = "done"
               /\ result' = "ValueError"
               /\ UNCHANGED version_data
          ELSE LET doc == DetailDocument(versions[found].url)
               IN /\ requests' = requests \cup {MANIFEST_URL, versions[found].url}
                  /\ pc' = "makedirs"
                  /\ version_data' = IF DetailKeyError(doc)
                                      THEN [NoVersionData EXCEPT !.id = mc_version]
                                      ELSE VersionDataOf(doc)
                  /\ UNCHANGED result
    /\ UNCHANGED <<mc_version, host, run, li, classpath, asset_index_objects,
                   oi, tasks, fs, dirs, meta, exc, fs0, meta0, metaWrites,
                   raw_library, library>>

\* get_version_data(mc_version), the requests answered.
GetVersionData ==
    /\ pc = "start"
    /\ LET versions == ManifestDocument.versions
           found == FindVersion(versions, mc_version, 1)
       IN IF found = 0
          THEN /\ requests' = requests \cup {MANIFEST_URL}
               /\ pc' = "done"
               /\ result' = "ValueError"
               /\ UNCHANGED version_data
          ELSE LET doc == DetailDocument(versions[found].url)
               IN /\ requests' = requests \cup {MANIFEST_URL, versions[found].url}
                  /\ IF DetailKeyError(doc)
                     THEN /\ pc' = "done"
                          /\ result' = "KeyError"
                          /\ UNCHANGED version_data
                     ELSE /\ pc' = "makedirs"
                          /\ version_data' = VersionDataOf(doc)
                          /\ UNCHANGED result
    /\ UNCHANGED <<mc_version, host, run, li, classpath, asset_index_objects,
                   oi, tasks, fs, dirs, meta, exc, fs0, meta0, metaWrites,
                   raw_library, library>>

\* The four os.makedirs at the head of download_minecraft_structure.
MakeDirectories ==
    /\ pc = "makedirs"
    /\ dirs' = MakeDirs(MakeDirs(MakeDirs(MakeDirs(dirs, output_dir),
                   libraries_directory), objects_directory), indexes_directory)
    /\ pc' = "client"
    /\ UNCHANGED <<mc_version, host, run, version_data, li, classpath,
                   asset_index_objects, oi, tasks, fs, meta, requests, exc,
                   result, fs0, meta0, metaWrites, raw_library, library>>

SubmitClient ==
    /\ pc = "client"
    /\ tasks' = Submit(tasks, version_data.client_jar_url, client_jar_path)
    /\ pc' = "libraries"
    /\ li' = 1
    /\ UNCHANGED <<mc_version, host, run, version_data, classpath,
                   asset_index_objects, oi, fs, dirs, meta, requests, exc,
                   result, fs0, meta0, metaWrites, raw_library, library>>

\* One turn of "for library in version_data.libraries".
LibraryStep ==
    /\ pc = "libraries"
    /\ li <= Len(version_data.libraries)
    /\ LET lib == version_data.libraries[li]
       IN IF Excluded(lib, host)
          THEN UNCHANGED <<tasks, classpath>>
          ELSE /\ tasks' = Submit(tasks, lib.download_url, LibraryPath(lib))
               /\ classpath' = Append(classpath, RelPath(LibraryPath(lib), output_dir))
    /\ li' = li + 1
    /\ UNCHANGED <<mc_version, host, run, pc, version_data,
                   asset_index_objects, oi, fs, dirs, meta, requests, exc,
                   result, fs0, meta0, metaWrites, raw_library, library>>

\* download_file(asset_index_url, asset_index_path) in the main thread:
\* the existence check, and past it makedirs and the request.
IndexStart ==
    /\ pc = "libraries"
    /\ li > Len(version_data.libraries)
    /\ IF Exists(fs, asset_index_path)
       THEN /\ pc' = "parse"
            /\ UNCHANGED <<dirs, requests>>
       ELSE /\ pc' = "index_get"
            /\ dirs' = MakeDirs(dirs, DirName(asset_index_path))
            /\ requests' = requests \cup {version_data.asset_index_url}
    /\ UNCHANGED <<mc_version, host, run, version_data, li, classpath,
                   asset_index_objects, oi, tasks, fs, meta, exc, result, fs0,
                   meta0, metaWrites, raw_library, library>>

\* The exception leaves download_minecraft_structure; the with block waits.
IndexGetFails ==
    /\ pc = "index_get"
    /\ exc' = "RequestException"
    /\ pc' = "exit"
    /\ UNCHANGED <<mc_version, host, run, version_data, li, classpath,
                   asset_index_objects, oi, tasks, fs, dirs, meta, requests,
                   result, fs0, meta0, metaWrites, raw_library, library>>

IndexGetOk ==
    /\ pc = "index_get"
    /\ fs' = OpenForWrite(fs, asset_index_path)
    /\ pc' = "index_stream"
    /\ UNCHANGED <<mc_version, host, run, version_data, li, classpath,
                   asset_index_objects, oi, tasks, dirs, meta, requests, exc,
                   result, fs0, meta0, metaWrites, raw_library, library>>

IndexStreamFails ==
    /\ pc = "index_stream"
    /\ exc' = "RequestException"
    /\ pc' = "exit"
    /\ UNCHANGED <<mc_version, host, run, version_data, li, classpath,
                   asset_index_objects, oi, tasks, fs, dirs, meta, requests,
                   result, fs0, meta0, metaWrites, raw_library, library>>

IndexStreamDone ==
    /\ pc = "index_stream"
    /\ fs' = CloseFile(fs, asset_index_path)
    /\ pc' = "parse"
    /\ UNCHANGED <<mc_version, host, run, version_data, li, classpath,
                   asset_index_objects, oi, tasks, dirs, meta, requests, exc,
                   result, fs0, meta0, metaWrites, raw_library, library>>

\* A parse that takes whatever the index file holds, complete or not.
ParseIndex_Unchecked ==
    /\ pc = "parse"
    /\ asset_index_objects' =
           LET objects == AssetIndexDocument(version_data.asset_index_url)
           IN [k \in 1..Len(objects) |-> objects[k].hash]
    /\ oi' = 1
    /\ pc' = "objects"
    /\ UNCHANGED <<mc_version, host, run, version_data, li, classpath, tasks,
                   fs, dirs, meta, requests, exc, result, fs0, meta0, metaWrites,
                   raw_library, library>>

\* json.loads(f.read())["objects"]: an incomplete file is no JSON document.
ParseIndex ==
    /\ pc = "parse"
    /\ IF fs[asset_index_path] = "full"
       THEN /\ asset_index_objects' =
                   LET objects == AssetIndexDocument(version_data.asset_index_url)
                   IN [k \in 1..Len(objects) |-> objects[k].hash]
            /\ oi' = 1
            /\ pc' = "objects"
            /\ UNCHANGED exc
       ELSE /\ exc' = "JSONDecodeError"
            /\ pc' = "exit"
            /\ UNCHANGED <<asset_index_objects, oi>>
    /\ UNCHANGED <<mc_version, host, run, version_data, li, classpath, tasks,
                   fs, dirs, meta, requests, result, fs0, meta0, metaWrites,
                   raw_library, library>>

\* One turn of "for object_data in asset_index_objects.values()".
ObjectStep ==
    /\ pc = "objects"
    /\ oi <= Len(asset_index_objects)
    /\ LET h == asset_index_objects[oi]
       IN tasks' = Submit(tasks, ObjectUrl(h), ObjectPath(h))
    /\ oi' = oi + 1
    /\ UNCHANGED <<mc_version, host, run, pc, version_data, li, classpath,
                   asset_index_objects, fs, dirs, meta, requests, exc, result,
                   fs0, meta0, metaWrites, raw_library, library>>

\* open(nelius.meta, "w") and json.dump, the last statement of
\* download_minecraft_structure.
WriteMeta ==
    /\ pc = "objects"
    /\ oi > Len(asset_index_objects)
    /\ fs' = CloseFile(OpenForWrite(fs, meta_path), meta_path)
    /\ meta' = <<Descriptor>>
    /\ metaWrites' = metaWrites + 1
    /\ pc' = "exit"
    /\ UNCHANGED <<mc_version, host, run, version_data, li, classpath,
                   asset_index_objects, oi, tasks, dirs, requests, exc, result,
                   fs0, meta0, raw_library, library>>

\* Leaving the with block: shutdown(wait=True), then the pending exception,
\* or print("Successfully downloaded all game files").
ExitPool ==
    /\ pc = "exit"
    /\ PoolDrained(tasks)
    /\ pc' = "done"
    /\ result' = RunResult(exc)
    /\ UNCHANGED <<mc_version, host, run, version_data, li, classpath,
                   asset_index_objects, oi, tasks, fs, dirs, meta, requests,
                   exc, fs0, meta0, metaWrites, raw_library, library>>

\* The process is killed: its threads stop where they are, the files stay.
Kill ==
    /\ pc \notin {"done", "killed"}
    /\ pc' = "killed"
    /\ result' = "killed"
    /\ UNCHANGED <<mc_version, host, run, version_data, li, classpath,
                   asset_index_objects, oi, tasks, fs, dirs, meta, requests,
                   exc, fs0, meta0, metaWrites, raw_library, library>>

\* The program is started again, with the same arguments, on the same directory.
Rerun ==
    /\ pc \in {"done", "killed"}
    /\ run < MaxRuns
    /\ run' = run + 1
    /\ pc' = "start"
    /\ version_data' = NoVersionData
    /\ li' = 1
    /\ classpath' = << >>
    /\ asset_index_objects' = << >>
    /\ oi' = 1
    /\ tasks' = << >>
    /\ requests' = {}
    /\ exc' = None
    /\ result' = None
    /\ fs0' = fs
    /\ meta0' = meta
    /\ metaWrites' = 0
    /\ UNCHANGED <<mc_version, host, fs, dirs, meta, raw_library, library>>

Init ==
    /\ mc_version \in RequestedVersions
    /\ host \in Hosts
    /\ run = 1
    /\ pc = "start"
    /\ version_data = NoVersionData
    /\ li = 1
    /\ classpath = << >>
    /\ asset_index_objects = << >>
    /\ oi = 1
    /\ tasks = << >>
    /\ fs = << >>
    /\ dirs = {}
    /\ meta = << >>
    /\ requests = {}
    /\ exc = None
    /\ result = None
    /\ fs0 = << >>
    /\ meta0 = << >>
    /\ metaWrites = 0
    /\ raw_library = << >>
    /\ library = << >>

Next ==
    \/ GetVersionDataFails
    \/ GetVersionData
    \/ MakeDirectories
    \/ SubmitClient
    \/ LibraryStep
    \/ IndexStart
    \/ IndexGetFails
    \/ IndexGetOk
    \/ IndexStreamFails
    \/ IndexStreamDone
    \/ ParseIndex
    \/ ObjectStep
    \/ WriteMeta
    \/ ExitPool
    \/ TaskStart
    \/ \E i \in 1..Len(tasks) : TaskGetFails(i)
    \/ \E i \in 1..Len(tasks) : TaskGetOk(i)
    \/ \E i \in 1..Len(tasks) : TaskStreamFails(i)
    \/ \E i \in 1..Len(tasks) : TaskStreamDone(i)
    \/ Kill
    \/ Rerun

Spec == Init /\ [][Next]_vars

\* One run that nobody kills.
NextLive ==
    \/ GetVersionDataFails
    \/ GetVersionData
    \/ MakeDirectories
    \/ SubmitClient
    \/ LibraryStep
    \/ IndexStart
    \/ IndexGetFails
    \/ IndexGetOk
    \/ IndexStreamFails
    \/ IndexStreamDone
    \/ ParseIndex
    \/ ObjectStep
    \/ WriteMeta
    \/ ExitPool
    \/ TaskStart
    \/ \E i \in 1..Len(tasks) : TaskGetFails(i)
    \/ \E i \in 1..Len(tasks) : TaskGetOk(i)
    \/ \E i \in 1..Len(tasks) : TaskStreamFails(i)
    \/ \E i \in 1..Len(tasks) : TaskStreamDone(i)

\* The main thread takes its next step.
MainStep ==
    \/ GetVersionDataFails
    \/ GetVersionData
    \/ MakeDirectories
    \/ SubmitClient
    \/ LibraryStep
    \/ IndexStart
    \/ IndexGetFails
    \/ IndexGetOk
    \/ IndexStreamFails
    \/ IndexStreamDone
    \/ ParseIndex
    \/ ObjectStep
    \/ WriteMeta
    \/ ExitPool

\* A request is answered or fails; a body ends or breaks off.
TaskResponds == \E i \in 1..Len(tasks) : TaskGetFails(i) \/ TaskGetOk(i)
TaskStreamEnds == \E i \in 1..Len(tasks) : TaskStreamFails(i) \/ TaskStreamDone(i)

\* The main thread and the workers are scheduled, and every request made
\* returns or fails.
Fairness ==
    /\ WF_vars(MainStep)
    /\ WF_vars(TaskStart)
    /\ WF_vars(TaskResponds)
    /\ WF_vars(TaskStreamEnds)

SpecLive == Init /\ [][NextLive]_vars /\ Fairness

-----------------------------------------------------------------------------
(* The extraction of one library entry, on every rule list up to MaxRules. *)

RuleKinds == {AnyRule, ArchRule, OsRule("windows"), OsRule("linux"), OsRule("osx")}

RuleLists == UNION {[1..n -> RuleKinds] : n \in 0..MaxRules}

RawLibraries ==
    {[name |-> "x", rules |-> r, downloads |-> Artifact("x.jar")] : r \in RuleLists}
    \cup {[name |-> "x", downloads |-> Artifact("x.jar")]}
    \cup {[name |-> "x", rules |-> r, downloads |-> [classifiers |-> "natives"]] :
             r \in {q \in RuleLists : Len(q) <= 1}}

InitExtract ==
    /\ raw_library \in RawLibraries
    /\ library = << >>
    /\ pc = "extract"
    /\ mc_version = "1.20"
    /\ host = "Linux"
    /\ run = 1
    /\ version_data = NoVersionData
    /\ li = 1
    /\ classpath = << >>
    /\ asset_index_objects = << >>
    /\ oi = 1
    /\ tasks = << >>
    /\ fs = << >>
    /\ dirs = {}
    /\ meta = << >>
    /\ requests = {}
    /\ exc = None
    /\ result = None
    /\ fs0 = << >>
    /\ meta0 = << >>
    /\ metaWrites = 0

\* One turn of "for raw_library in raw_version_details.get("libraries", [])".
ExtractLibrary ==
    /\ pc = "extract"
    /\ library' = ParseLibrary(<< >>, raw_library)
    /\ pc' = "extracted"
    /\ UNCHANGED <<mc_version, host, run, version_data, li, classpath,
                   asset_index_objects, oi, tasks, fs, dirs, meta, requests,
                   exc, result, fs0, meta0, metaWrites, raw_library>>

NextExtract == ExtractLibrary

SpecExtract == InitExtract /\ [][NextExtract]_vars

-----------------------------------------------------------------------------
(* The classpath the launcher builds from nelius.meta                      *)
(* (nelius_launch.py, launch_minecraft).                                   *)

LaunchClasspath(m) ==
    LET game_dir == DirName(meta_path)
    IN [k \in 1..Len(m.classpath_relative) |-> Join(game_dir, m.classpath_relative[k])]
       \o << Join(game_dir, <<"client.jar">>) >>

-----------------------------------------------------------------------------
(* Properties                                                              *)

Failed(ts) == {i \in 1..Len(ts) : ts[i].st = "Failed"}
Unfinished(ts) == {i \in 1..Len(ts) : ts[i].st \in {"queued", "get", "stream"}}

\* C1: nelius.meta is written only after every fetch of the run has
\* completed: no state of a run that has written the descriptor holds a
\* submitted task that is still queued or running.
C1_DescriptorAfterAllFetches ==
    (metaWrites > 0 /\ pc # "killed") => Unfinished(tasks) = {}

\* C2: a run writes nelius.meta at most once, and a run that has ended with
\* a failed task has not written it.
C2_NoDescriptorAfterFailure ==
    /\ metaWrites <= 1
    /\ (pc = "done" /\ Failed(tasks) # {}) => metaWrites = 0

\* C3: a failing task leaves every sibling task as it is, and when the run
\* has left the pool every submitted task has run to an outcome of its own.
C3_SiblingsRunToOutcome ==
    /\ [](pc = "done" =>
            \A i \in 1..Len(tasks) : tasks[i].st \in {"Skipped", "Downloaded", "Failed"})
    /\ [][\A i \in 1..Len(tasks) :
            (tasks[i].st # "Failed" /\ i <= Len(tasks') /\ tasks'[i].st = "Failed")
            => /\ Len(tasks') = Len(tasks)
               /\ \A j \in 1..Len(tasks) : j # i => tasks'[j] = tasks[j]]_vars

\* A run has ended with one task failed and its siblings downloaded.
C3_Witness ==
    /\ pc = "done"
    /\ Len(tasks) >= 3
    /\ \E i \in 1..Len(tasks) :
        /\ tasks[i].st = "Failed"
        /\ \A j \in 1..Len(tasks) : j # i => tasks[j].st = "Downloaded"

\* C4: a run in which a submitted task failed does not end in the success
\* outcome.
C4_FailureSurfaced ==
    (pc = "done" /\ Failed(tasks) # {}) => result # "success"

VersionKnown ==
    \E i \in 1..Len(ManifestDocument.versions) :
        ManifestDocument.versions[i].id = mc_version

\* C5: when no manifest entry has exactly the requested id, the run ends
\* with the version-not-found error (or the failure of the manifest request)
\* having created no directory, submitted no task, requested nothing but the
\* manifest and written no file.
C5_UnknownVersionDownloadsNothing ==
    ~ VersionKnown =>
        /\ pc \in {"start", "done", "killed"}
        /\ pc = "done" => result \in {"ValueError", "ConnectionError"}
        /\ dirs = {}
        /\ tasks = << >>
        /\ fs = << >>
        /\ meta = << >>
        /\ metaWrites = 0
        /\ requests \subseteq {MANIFEST_URL}

\* A second run on an unknown version has ended with the error.
C5_Witness ==
    /\ ~ VersionKnown
    /\ run = 2
    /\ pc = "done"
    /\ result = "ValueError"
    /\ requests = {MANIFEST_URL}

TasksAt(p) == {i \in 1..Len(tasks) : tasks[i].path = p}

\* C6: a run on a populated directory requests no object that is already
\* there: every file present when the run started keeps its state, every
\* task for it is Skipped without a request (the index fetch included), and
\* a descriptor already there keeps its content.
C6_SecondRunSkipsPresentFiles ==
    /\ \A p \in DOMAIN fs0 :
        /\ p \in DOMAIN fs
        /\ fs[p] = fs0[p]
        /\ \A i \in TasksAt(p) :
            /\ tasks[i].st \in {"queued", "Skipped"}
            /\ tasks[i].url \notin requests
        /\ p = asset_index_path =>
            /\ pc \notin {"index_get", "index_stream"}
            /\ version_data.asset_index_url \notin requests
    /\ meta0 # << >> => meta = meta0

\* A second run over a fully populated directory has ended in success with
\* every task Skipped and only the manifest and the detail document requested.
C6_Witness ==
    /\ run = 2
    /\ pc = "done"
    /\ result = "success"
    /\ Len(tasks) >= 4
    /\ \A i \in 1..Len(tasks) :
        tasks[i].st = "Skipped" /\ fs0[tasks[i].path] = "full"
    /\ Cardinality(requests) = 2
    /\ meta0 # << >>

\* C7: a fetch whose destination exists is Skipped in the step that starts
\* it, with no request, no directory made and no file touched, whatever the
\* state of the file; and a file found incomplete at the start of a run is
\* still incomplete at every state of that run.
C7_ExistingFileSkipped ==
    /\ [][/\ \A i \in 1..Len(tasks) :
               (/\ tasks[i].st = "queued"
                /\ i <= Len(tasks')
                /\ tasks'[i].st # "queued"
                /\ tasks[i].path \in DOMAIN fs)
               => /\ tasks'[i].st = "Skipped"
                  /\ fs' = fs
                  /\ requests' = requests
          /\ (/\ pc = "libraries"
              /\ pc' \in {"index_get", "parse"}
              /\ asset_index_path \in DOMAIN fs)
             => /\ pc' = "parse"
                /\ fs' = fs
                /\ requests' = requests]_vars
    /\ [](\A p \in DOMAIN fs0 :
            fs0[p] = "partial" => p \in DOMAIN fs /\ fs[p] = "partial")

\* A later run has ended having Skipped a file that an earlier run left
\* incomplete.
C7_Witness ==
    /\ run = 2
    /\ pc = "done"
    /\ \E i \in 1..Len(tasks) :
        /\ tasks[i].st = "Skipped"
        /\ tasks[i].path \in DOMAIN fs0
        /\ fs0[tasks[i].path] = "partial"
        /\ fs[tasks[i].path] = "partial"

\* C8: a fetch that fails (the process not being killed) leaves no file at
\* its destination: in the step in which a task fails, a destination that no
\* earlier run left behind and no other task shares is absent afterwards.
C8_FailedFetchLeavesNoFile ==
    [][\A i \in 1..Len(tasks) :
        (/\ tasks[i].st \in {"get", "stream"}
         /\ i <= Len(tasks')
         /\ tasks'[i].st = "Failed"
         /\ tasks[i].path \notin DOMAIN fs0
         /\ TasksAt(tasks[i].path) = {i})
        => tasks[i].path \notin DOMAIN fs']_vars

\* The host's name among the platform constraints.
HostConstraint(h) ==
    CASE h = "Windows" -> "windows"
      [] h = "Linux" -> "linux"
      [] h = "Darwin" -> "osx"
      [] OTHER -> "none"

\* The libraries whose constraint is any ("unspecified") or the host's, in
\* declaration order.
RECURSIVE Applicable(_, _)
Applicable(libs, h) ==
    IF libs = << >> THEN << >>
    ELSE LET rest == Applicable(Tail(libs), h)
         IN IF Head(libs).operating_system \in {"unspecified", HostConstraint(h)}
            THEN <<Head(libs)>> \o rest
            ELSE rest

LibrariesDone ==
    \/ pc \in {"index_get", "index_stream", "parse", "objects", "exit"}
    \/ pc = "done" /\ tasks # << >>
    \/ pc = "libraries" /\ li > Len(version_data.libraries)

ObjectsSubmitted ==
    IF pc = "objects" THEN oi - 1
    ELSE IF metaWrites > 0 THEN Len(asset_index_objects)
    ELSE 0

\* C9: once the loop over the libraries is over, the classpath holds the
\* relative paths of exactly the applicable libraries in declaration order,
\* the tasks submitted after client.jar and before the assets are exactly
\* their downloads, the descriptor carries that classpath, and the launcher
\* puts client.jar after it.
C9_PlatformFiltering ==
    LET kept == Applicable(version_data.libraries, host)
        n == Len(kept)
    IN /\ LibrariesDone =>
            /\ classpath = [k \in 1..n |-> <<"libraries">> \o kept[k].download_path]
            /\ Len(tasks) = 1 + n + ObjectsSubmitted
            /\ \A k \in 1..n :
                /\ tasks[1 + k].url = kept[k].download_url
                /\ tasks[1 + k].path = output_dir \o <<"libraries">> \o kept[k].download_path
       /\ metaWrites > 0 =>
            /\ meta[1].classpath_relative = classpath
            /\ LaunchClasspath(meta[1]) =
                  [k \in 1..n |-> output_dir \o <<"libraries">> \o kept[k].download_path]
                  \o <<output_dir \o <<"client.jar">> >>

\* A descriptor was written for a version of which one library applies to
\* the host and another does not.
C9_Witness ==
    /\ metaWrites > 0
    /\ pc = "done"
    /\ Len(version_data.libraries) = 2
    /\ Len(classpath) = 1
    /\ \E k \in 1..2 : version_data.libraries[k].operating_system = HostConstraint(host)

NamedRules(rules) ==
    {k \in 1..Len(rules) : "os" \in DOMAIN rules[k] /\ "name" \in DOMAIN rules[k].os}

\* C10: the constraint of an extracted library is the OS name of the last
\* rule that names an OS, and "unspecified" (any) when no rule names one.
C10_LastNamedRuleWins ==
    (pc = "extracted" /\ library # << >>) =>
        LET rules == Get(raw_library, "rules", << >>)
            named == NamedRules(rules)
        IN library[1].operating_system =
              IF named = {} THEN "unspecified"
              ELSE rules[CHOOSE k \in named : \A j \in named : j <= k].os.name

\* C11: the run leaves the with block only when no task of either round is
\* queued or running: the step out of the pool finds every task with an
\* outcome and changes none, a finished run holds the tasks of both rounds
\* when it is a success, and no task moves once the run has ended.
C11_DrainWaitsForAllTasks ==
    /\ [][(pc = "exit" /\ pc' = "done") =>
            /\ \A i \in 1..Len(tasks) : tasks[i].st \in {"Skipped", "Downloaded", "Failed"}
            /\ tasks' = tasks]_vars
    /\ [][(pc = "done" /\ pc' = "done") => tasks' = tasks]_vars
    /\ [](pc = "done" /\ result = "success" =>
            Len(tasks) = 1 + Len(classpath) + Len(asset_index_objects))

\* A run of more tasks than workers, assets among them, has left the pool.
C11_Witness ==
    /\ pc = "done"
    /\ result = "success"
    /\ Len(asset_index_objects) >= 2
    /\ Len(tasks) > CONCURRENT_DOWNLOAD_WORKERS
    /\ \A i \in 1..Len(tasks) : tasks[i].st = "Downloaded"

\* C12: at no time do two tasks have the same destination open for writing.
C12_NoConcurrentWriters ==
    \A i, j \in 1..Len(tasks) :
        (i # j /\ tasks[i].st = "stream" /\ tasks[j].st = "stream")
        => tasks[i].path # tasks[j].path

RequestedDetail ==
    LET k == CHOOSE i \in 1..Len(ManifestDocument.versions) :
                 ManifestDocument.versions[i].id = mc_version
    IN DetailDocument(ManifestDocument.versions[k].url)

Has(d, k) == k \in DOMAIN d

\* A required field is missing: id, mainClass, assetIndex.id, assetIndex.url,
\* downloads.client.url, or the name, path or url of a library with an
\* artifact.
MissingRequired(doc) ==
    \/ ~ Has(doc, "id")
    \/ ~ Has(doc, "mainClass")
    \/ ~ (Has(doc, "assetIndex") /\ Has(doc.assetIndex, "id") /\ Has(doc.assetIndex, "url"))
    \/ ~ (Has(doc, "downloads") /\ Has(doc.downloads, "client")
          /\ Has(doc.downloads.client, "url"))
    \/ Has(doc, "libraries") /\ \E k \in 1..Len(doc.libraries) :
          LET l == doc.libraries[k]
          IN /\ Has(l, "downloads") /\ Has(l.downloads, "artifact")
             /\ ~ (Has(l, "name") /\ Has(l.downloads.artifact, "path")
                   /\ Has(l.downloads.artifact, "url"))

\* C14: when the detail document of the requested version lacks a required
\* field the run ends with KeyError (or the failure of a request) without a
\* VersionData, a directory, a task, a file or a descriptor.
C14_MalformedDetailIsFatal ==
    (VersionKnown /\ MissingRequired(RequestedDetail)) =>
        /\ pc \in {"start", "done", "killed"}
        /\ pc = "done" => result \in {"KeyError", "ConnectionError"}
        /\ version_data = NoVersionData
        /\ dirs = {}
        /\ tasks = << >>
        /\ fs = << >>
        /\ meta = << >>
        /\ metaWrites = 0

\* A run on a detail document whose first library has an artifact without
\* a path has ended with KeyError.
C14_Witness ==
    /\ mc_version = "no-library-path"
    /\ MissingRequired(RequestedDetail)
    /\ pc = "done"
    /\ result = "KeyError"

IsObjectTask(t) ==
    Len(t.path) >= 3 /\ SubSeq(t.path, 1, 3) = <<"out", "assets", "objects">>

IndexPathOf(id) == <<"out", "assets", "indexes", <<id, ".json">> >>

\* C15: an asset task is submitted only by a main thread that is past the
\* fetch of the index, with the complete index file on disk and its
\* objects parsed; while the index is being fetched or parsed no asset task
\* exists.
C15_IndexBeforeObjects ==
    /\ [][Len(tasks') > Len(tasks) /\ IsObjectTask(tasks'[Len(tasks')]) =>
            /\ pc = "objects"
            /\ exc = None
            /\ IndexPathOf(version_data.asset_index_id) \in DOMAIN fs
            /\ fs[IndexPathOf(version_data.asset_index_id)] = "full"
            /\ asset_index_objects =
                  [k \in 1..Len(AssetIndexDocument(version_data.asset_index_url)) |->
                      AssetIndexDocument(version_data.asset_index_url)[k].hash]]_vars
    /\ [](pc \in {"start", "makedirs", "client", "libraries", "index_get",
                  "index_stream", "parse"}
            => \A i \in 1..Len(tasks) : ~ IsObjectTask(tasks[i]))

\* The first asset task has been submitted, after an index fetch over the
\* network in this run.
C15_Witness ==
    /\ pc = "objects"
    /\ oi = 2
    /\ IsObjectTask(tasks[Len(tasks)])
    /\ version_data.asset_index_url \in requests

Executing == {i \in 1..Len(tasks) : tasks[i].st \in {"get", "stream"}}

\* C16: at most CONCURRENT_DOWNLOAD_WORKERS tasks are inside download_file
\* at a time, and a task is taken from the queue only when fewer are.
C16_BoundedConcurrency ==
    /\ [](Cardinality(Executing) <= CONCURRENT_DOWNLOAD_WORKERS)
    /\ [][\A i \in 1..Len(tasks) :
            (tasks[i].st = "queued" /\ i <= Len(tasks') /\ tasks'[i].st # "queued")
            => Cardinality(Executing) < CONCURRENT_DOWNLOAD_WORKERS]_vars

\* Every worker is busy and a submitted task waits in the queue.
C16_Witness ==
    /\ Cardinality(Executing) = CONCURRENT_DOWNLOAD_WORKERS
    /\ \E i \in 1..Len(tasks) : tasks[i].st = "queued"
    /\ pc # "killed"

\* The descriptor as the requested version's documents and the host
\* determine it.
ExpectedDescriptor ==
    LET doc == RequestedDetail
        kept == Applicable(VersionDataOf(doc).libraries, host)
    IN [version |-> mc_version,
        asset_index_id |-> doc.assetIndex.id,
        classpath_relative |-> [k \in 1..Len(kept) |-> <<"libraries">> \o kept[k].download_path],
        main_class |-> doc.mainClass,
        assets_dir |-> <<"assets">>]

\* C17: whatever the order in which the tasks started and finished, the
\* descriptor on disk is the one the requested version and the host
\* determine.
C17_DescriptorIndependentOfTaskOrder ==
    meta # << >> => meta = <<ExpectedDescriptor>>

\* A descriptor of two libraries was written in a run in which the later
\* library task finished while the earlier one was still streaming.
C17_Witness ==
    /\ metaWrites > 0
    /\ Len(classpath) = 2
    /\ tasks[2].st = "stream"
    /\ tasks[3].st = "Downloaded"

\* C18: once the fetch or the parse of the index has failed, the run holds
\* the client and library tasks only, submits no asset task, writes no
\* descriptor, and ends with that error only when each of those tasks has
\* an outcome.
C18_IndexFailureStopsPhaseTwo ==
    exc # None =>
        /\ pc \in {"exit", "done", "killed"}
        /\ Len(tasks) = 1 + Len(classpath)
        /\ \A i \in 1..Len(tasks) : ~ IsObjectTask(tasks[i])
        /\ metaWrites = 0
        /\ pc = "done" =>
            /\ result = exc
            /\ \A i \in 1..Len(tasks) : tasks[i].st \in {"Skipped", "Downloaded", "Failed"}

\* A run whose index fetch failed has ended with the error after its three
\* tasks were downloaded.
C18_Witness ==
    /\ pc = "done"
    /\ exc = "RequestException"
    /\ result = "RequestException"
    /\ Len(tasks) = 3
    /\ \A i \in 1..Len(tasks) : tasks[i].st = "Downloaded"

\* C19: under fair scheduling, with every request returning or failing,
\* the run ends and from then on every submitted task has an outcome: none
\* is left queued or running.
C19_Termination ==
    <>[](/\ pc = "done"
         /\ \A i \in 1..Len(tasks) : tasks[i].st \in {"Skipped", "Downloaded", "Failed"})

\* A run of more tasks than workers has ended with every task downloaded.
C19_Witness ==
    /\ pc = "done"
    /\ Len(tasks) > CONCURRENT_DOWNLOAD_WORKERS + 2
    /\ \A i \in 1..Len(tasks) : tasks[i].st = "Downloaded"

====
